---- MODULE Spec2Model ----
(***************************************************************************)
(* Model of codex-rs/lmstudio: the LM Studio HTTP client (client.rs), the  *)
(* lms binary locator and the readiness flow ensure_oss_ready (lib.rs).    *)
(*                                                                         *)
(* Strings that the code builds with format! are sequences of string       *)
(* pieces, so that "the message contains X" is membership of a piece.      *)
(* JSON values are tagged records [t, v], as serde_json::Value is an enum. *)
(***************************************************************************)
EXTENDS Integers, Sequences, FiniteSets, TLC

VARIABLES
    config,      \* the &Config argument: [model_providers, model]
    platform,    \* the build's cfg: "unix" or "windows"
    which_lms,   \* whether which::which("lms") resolves on the search path
    env,         \* the process environment: variable name -> value or Unset
    fs,          \* the set of paths that exist on the filesystem
    pc,          \* position in the function under execution
    client,      \* the LMStudioClient under construction / constructed
    requests,    \* URLs of the HTTP GET requests issued so far in this run
    trace,       \* external steps taken so far in this run, in order
    response,    \* outcome of the last send().await seen by a direct client call
    health,      \* result of check_server
    fetched,     \* result of fetch_models
    home_dir,    \* the home_dir argument of find_lms_binary_with_home_dir
    lms_binary,  \* result of find_lms_binary
    child,       \* the std::process::Command run: program, args, outcome
    logged,      \* lines written by eprintln! / tracing in this run
    ret          \* value returned by the function under execution

vars == <<config, platform, which_lms, env, fs, pc, client, requests, trace,
          response, health, fetched, home_dir, lms_binary, child, logged, ret>>

----------------------------------------------------------------------------
(* Bounds of the model *)

\* Longest `data` array in a response body.
MaxEntries == 3

\* Most files present on the filesystem at once.
MaxFiles == 1

----------------------------------------------------------------------------
(* Program constants *)

DEFAULT_OSS_MODEL == "openai/gpt-oss-20b"

\* codex_core::LMSTUDIO_OSS_PROVIDER_ID, the key looked up in model_providers.
LMSTUDIO_OSS_PROVIDER_ID == "lmstudio"

\* Another model identifier, for -m and for listings.
OTHER_MODEL == "openai/gpt-oss-120b"

Models == {DEFAULT_OSS_MODEL, OTHER_MODEL}

None == [some |-> FALSE]
Some(x) == [some |-> TRUE, val |-> x]

Ok(x) == [ok |-> TRUE, val |-> x]
Err(kind, msg) == [ok |-> FALSE, kind |-> kind, msg |-> msg]

Unit == "()"

\* "msg contains piece"
Contains(msg, piece) == \E i \in 1..Len(msg) : msg[i] = piece

----------------------------------------------------------------------------
(* serde_json::Value *)

Null == [t |-> "null"]
JString(s) == [t |-> "string", v |-> s]
JNumber(n) == [t |-> "number", v |-> n]
JArray(a) == [t |-> "array", v |-> a]
JObject(f) == [t |-> "object", v |-> f]

\* value[key]: Null unless value is an object that has the key.
Index(value, key) ==
    IF value.t = "object" /\ key \in DOMAIN value.v THEN value.v[key] ELSE Null

as_array(value) == IF value.t = "array" THEN Some(value.v) ELSE None

as_str(value) == IF value.t = "string" THEN Some(value.v) ELSE None

----------------------------------------------------------------------------
(* HTTP *)

Statuses == {200, 204, 404, 500}

\* Variant: only 200 counts as success.
is_success_only_200(status) == status = 200

is_success(status) == 200 <= status /\ status <= 299

canonical_reason(status) ==
    CASE status = 200 -> "OK"
      [] status = 204 -> "No Content"
      [] status = 404 -> "Not Found"
      [] status = 500 -> "Internal Server Error"
      [] OTHER -> "<unknown status code>"

\* Display of a StatusCode: "404 Not Found".
StatusDisplay(status) == <<ToString(status), " ", canonical_reason(status)>>

\* Entries a `data` array may hold.
Entries ==
    { JObject([id |-> JString(DEFAULT_OSS_MODEL)]),
      JObject([id |-> JString(OTHER_MODEL), object |-> JString("model")]),
      JObject([id |-> JNumber(7)]),
      JObject([object |-> JString("model")]),
      JString(DEFAULT_OSS_MODEL) }

RECURSIVE SeqsUpTo(_, _)
SeqsUpTo(S, n) ==
    IF n = 0 THEN {<<>>}
    ELSE LET shorter == SeqsUpTo(S, n - 1)
         IN  shorter \cup {Append(s, e) : s \in shorter, e \in S}

DataArrays == SeqsUpTo(Entries, MaxEntries)

\* A body is text that does not parse as JSON, or a JSON value.
Unparseable == [json |-> FALSE, text |-> ""]
Json(value) == [json |-> TRUE, value |-> value]

JsonBodies ==
    {Json(JObject([data |-> JArray(a)])) : a \in DataArrays}
    \cup { Json(JObject([object |-> JString("list")])),
           Json(JObject([data |-> JString(DEFAULT_OSS_MODEL)])),
           Json(JObject([data |-> Null])),
           Json(JArray(<<JObject([id |-> JString(DEFAULT_OSS_MODEL)])>>)) }

Bodies == {Unparseable} \cup JsonBodies

TransportErrors == {"error sending request: connection refused"}

\* Outcome of client.get(&url).send().await
Received(status, body) == [sent |-> TRUE, status |-> status, body |-> body]
TransportError(e) == [sent |-> FALSE, error |-> e]

SendOutcomes ==
    {TransportError(e) : e \in TransportErrors}
    \cup {Received(s, b) : s \in Statuses, b \in Bodies}

NoOutcome == [sent |-> FALSE, error |-> "<no request>"]

BaseUrls == { <<"http://localhost:1234/v1">>, <<"http://localhost:1234/v1", "/">> }

RECURSIVE trim_end_matches(_, _)
trim_end_matches(s, c) ==
    IF Len(s) > 0 /\ s[Len(s)] = c
    THEN trim_end_matches(SubSeq(s, 1, Len(s) - 1), c)
    ELSE s

\* format!("{}/models", self.base_url.trim_end_matches('/'))
ModelsUrl(base_url) == trim_end_matches(base_url, "/") \o <<"/models">>

----------------------------------------------------------------------------
(* LMStudioClient *)

\* check_server's match on the outcome of send().
check_server(outcome) ==
    IF outcome.sent /\ is_success(outcome.status) THEN Ok(Unit)
    ELSE IF outcome.sent
    THEN Err("Other", <<"Server returned error: ">> \o StatusDisplay(outcome.status))
    ELSE Err("Other", <<outcome.error>>)

\* Variant: collection stops at the first entry without a string id
\* (map_while in place of filter_map).
RECURSIVE CollectIdsMapWhile(_)
CollectIdsMapWhile(entries) ==
    IF entries = <<>> THEN <<>>
    ELSE LET id == as_str(Index(Head(entries), "id"))
         IN  IF id.some THEN <<id.val>> \o CollectIdsMapWhile(Tail(entries)) ELSE <<>>

\* .iter().filter_map(|model| model["id"].as_str()).map(|id| id.to_string()).collect()
RECURSIVE CollectIds(_)
CollectIds(entries) ==
    IF entries = <<>> THEN <<>>
    ELSE LET id == as_str(Index(Head(entries), "id"))
         IN  (IF id.some THEN <<id.val>> ELSE <<>>) \o CollectIds(Tail(entries))

\* Variant: a body without a data array counts as an empty listing
\* (unwrap_or_default in place of ok_or_else).
fetch_models_lenient(outcome) ==
    IF ~outcome.sent
    THEN Err("Other", <<"Request failed: ", outcome.error>>)
    ELSE IF is_success(outcome.status)
    THEN IF ~outcome.body.json
         THEN Err("InvalidData", <<"JSON parse error: ", "error decoding response body">>)
         ELSE LET data == as_array(Index(outcome.body.value, "data"))
              IN  IF data.some THEN Ok(CollectIds(data.val)) ELSE Ok(<<>>)
    ELSE Err("Other", <<"Failed to fetch models: ">> \o StatusDisplay(outcome.status))

\* fetch_models' handling of the outcome of send().
fetch_models(outcome) ==
    IF ~outcome.sent
    THEN Err("Other", <<"Request failed: ", outcome.error>>)
    ELSE IF is_success(outcome.status)
    THEN IF ~outcome.body.json
         THEN Err("InvalidData", <<"JSON parse error: ", "error decoding response body">>)
         ELSE LET data == as_array(Index(outcome.body.value, "data"))
              IN  IF data.some
                  THEN Ok(CollectIds(data.val))
                  ELSE Err("InvalidData", <<"No 'data' array in response">>)
    ELSE Err("Other", <<"Failed to fetch models: ">> \o StatusDisplay(outcome.status))

\* What check_server and fetch_models can return, over every outcome of send().
CheckServerResults == {check_server(outcome) : outcome \in SendOutcomes}

FetchModelsResults == {fetch_models(outcome) : outcome \in SendOutcomes}

----------------------------------------------------------------------------
(* Binary locator *)

Platforms == {"unix", "windows"}

\* The environment variable that names the home directory on each platform.
HomeVar(pl) == IF pl = "unix" THEN "HOME" ELSE "USERPROFILE"

\* std::env::var(name).unwrap_or_default()
env_var_or_default(e, name) == IF e[name].some THEN e[name].val ELSE ""

\* format!("{home}/.lmstudio/bin/lms") or, on windows, "...lms.exe"
fallback_path(pl, home) ==
    IF pl = "unix" THEN home \o "/.lmstudio/bin/lms"
    ELSE home \o "/.lmstudio/bin/lms.exe"

NotFoundMessage ==
    <<"LM Studio not found. Please install LM Studio from ", "https://lmstudio.ai/">>

\* Variant: the fallback file is tried before the search path.
find_lms_binary_fallback_first(hd, pl, on_path, e, files) ==
    LET home == IF hd.some THEN hd.val ELSE env_var_or_default(e, HomeVar(pl))
        path == fallback_path(pl, home)
    IN  IF path \in files THEN Ok(path)
        ELSE IF on_path THEN Ok("lms")
        ELSE Err("NotFound", NotFoundMessage)

find_lms_binary_with_home_dir(hd, pl, on_path, e, files) ==
    IF on_path THEN Ok("lms")
    ELSE LET home == IF hd.some THEN hd.val ELSE env_var_or_default(e, HomeVar(pl))
             path == fallback_path(pl, home)
         IN  IF path \in files THEN Ok(path)
             ELSE Err("NotFound", NotFoundMessage)

find_lms_binary(pl, on_path, e, files) ==
    find_lms_binary_with_home_dir(None, pl, on_path, e, files)

\* Inputs of the locator.
EnvHomes == {"/home/u"}

MockHomes == {"/test/home"}

Envs == [{"HOME", "USERPROFILE"} -> {None} \cup {Some(h) : h \in EnvHomes}]

Files ==
    {fallback_path(pl, h) : pl \in Platforms, h \in {""} \cup EnvHomes \cup MockHomes}

Filesystems == {f \in SUBSET Files : Cardinality(f) <= MaxFiles}

HomeDirArgs == {None} \cup {Some(h) : h \in MockHomes}

----------------------------------------------------------------------------
(* Configuration *)

\* config.model_providers: provider id -> provider record. The built-in
\* LM Studio provider always carries a base_url (the expect() at the lookup).
ProviderMaps ==
    { <<>>, [ollama |-> [base_url |-> Some(<<"http://localhost:11434/v1">>)]] }
    \cup {[lmstudio |-> [base_url |-> Some(u)]] : u \in BaseUrls}

Configs == [model_providers : ProviderMaps, model : Models]

----------------------------------------------------------------------------
(* std::process *)

Exited(code) == [exited |-> TRUE, code |-> code]
Signaled(sig) == [exited |-> FALSE, signal |-> sig]

\* Variant: any exit, whatever its code, counts as success.
success_any_exit(status) == status.exited

\* ExitStatus::success()
success(status) == status.exited /\ status.code = 0

\* Display of an ExitStatus
ExitStatusDisplay(pl, status) ==
    IF ~status.exited THEN <<"signal: ", ToString(status.signal)>>
    ELSE IF pl = "unix" THEN <<"exit status: ", ToString(status.code)>>
    ELSE <<"exit code: ", ToString(status.code)>>

ExitStatuses(pl) ==
    {Exited(c) : c \in {0, 1}} \cup (IF pl = "unix" THEN {Signaled(9)} ELSE {})

SpawnErrors == {"No such file or directory (os error 2)"}

\* Outcome of Command::status(): the OS error of a failed spawn, or the exit status.
SpawnFailed(e) == [spawned |-> FALSE, error |-> e]
Ran(status) == [spawned |-> TRUE, status |-> status]

StatusOutcomes(pl) ==
    {SpawnFailed(e) : e \in SpawnErrors} \cup {Ran(st) : st \in ExitStatuses(pl)}

----------------------------------------------------------------------------
(* ensure_oss_ready *)

\* Variant: only the first listed model is compared.
ModelListedFirstOnly(models) == Len(models) > 0 /\ models[1] = DEFAULT_OSS_MODEL

\* models.iter().any(|m| m == DEFAULT_OSS_MODEL)
ModelListed(models) == \E i \in 1..Len(models) : models[i] = DEFAULT_OSS_MODEL

\* .args(["get", "--yes", DEFAULT_OSS_MODEL])
GetArgs == <<"get", "--yes", DEFAULT_OSS_MODEL>>

ProviderNotFound ==
    Err("NotFound", <<"Built-in provider ", LMSTUDIO_OSS_PROVIDER_ID, " not found">>)

ExecuteFailed(program, e) ==
    Err("Other", <<"Failed to execute '", program, " get --yes ", DEFAULT_OSS_MODEL,
                   "': ", e>>)

CommandFailed(pl, status) ==
    Err("Other", <<"lms command failed with status: ">> \o ExitStatusDisplay(pl, status))

DownloadingLine == <<"Downloading model: ", DEFAULT_OSS_MODEL>>

WarnLine(err) == <<"Failed to query local models from LM Studio: ">> \o err.msg \o <<".">>

InfoLine(cfg) == <<"Successfully downloaded model '", cfg.model, "'">>

\* Variant: a missing provider entry falls back to a default provider.
LookupProviderDefaulting(cfg) ==
    IF LMSTUDIO_OSS_PROVIDER_ID \in DOMAIN cfg.model_providers
    THEN Ok(cfg.model_providers[LMSTUDIO_OSS_PROVIDER_ID])
    ELSE Ok([base_url |-> Some(<<"http://localhost:1234/v1">>)])

\* config.model_providers.get(LMSTUDIO_OSS_PROVIDER_ID).ok_or_else(...)
LookupProvider(cfg) ==
    IF LMSTUDIO_OSS_PROVIDER_ID \in DOMAIN cfg.model_providers
    THEN Ok(cfg.model_providers[LMSTUDIO_OSS_PROVIDER_ID])
    ELSE ProviderNotFound

\* Variant: the result of the health check is dropped.
AfterCheckServerIgnored(r) == [next |-> "fetch_models", ret |-> None]

\* client.check_server().await?; Ok(client) and, in ensure_oss_ready, the `?`
\* on try_from_provider: where the run goes and what it returns.
AfterCheckServer(r) ==
    IF r.ok THEN [next |-> "fetch_models", ret |-> None]
    ELSE [next |-> "returned", ret |-> Some(r)]

\* Variant: a listing error is propagated with `?`.
MatchFetchedPropagating(r) ==
    IF r.ok
    THEN IF ~ModelListed(r.val)
         THEN [next |-> "find_lms_binary", ret |-> None, log |-> <<DownloadingLine>>]
         ELSE [next |-> "returned", ret |-> Some(Ok(Unit)), log |-> <<>>]
    ELSE [next |-> "returned", ret |-> Some(r), log |-> <<>>]

\* The match on the result of fetch_models, up to the call of find_lms_binary.
MatchFetched(r) ==
    IF r.ok
    THEN IF ~ModelListed(r.val)
         THEN [next |-> "find_lms_binary", ret |-> None, log |-> <<DownloadingLine>>]
         ELSE [next |-> "returned", ret |-> Some(Ok(Unit)), log |-> <<>>]
    ELSE [next |-> "returned", ret |-> Some(Ok(Unit)), log |-> <<WarnLine(r)>>]

\* let lms_binary = find_lms_binary()?;
AfterFindLmsBinary(r) ==
    IF r.ok THEN [next |-> "status", ret |-> None]
    ELSE [next |-> "returned", ret |-> Some(r)]

\* .status().map_err(...)?, the check of status.success(), and the final Ok(()).
AfterStatus(cfg, pl, program, outcome) ==
    IF ~outcome.spawned
    THEN [ret |-> Some(ExecuteFailed(program, outcome.error)), log |-> <<>>]
    ELSE IF ~success(outcome.status)
    THEN [ret |-> Some(CommandFailed(pl, outcome.status)), log |-> <<>>]
    ELSE [ret |-> Some(Ok(Unit)), log |-> <<InfoLine(cfg)>>]

\* State of a run before its first step.
Fresh ==
    /\ client = None
    /\ requests = <<>>
    /\ trace = <<>>
    /\ response = NoOutcome
    /\ health = None
    /\ fetched = None
    /\ home_dir = None
    /\ lms_binary = None
    /\ child = None
    /\ logged = <<>>
    /\ ret = None

Init ==
    /\ config \in Configs
    /\ platform \in Platforms
    /\ which_lms \in BOOLEAN
    /\ env \in Envs
    /\ fs \in Filesystems
    /\ pc = "ensure_oss_ready"
    /\ Fresh

\* try_from_provider up to the construction of the client: the provider lookup.
TryFromProvider ==
    /\ pc = "ensure_oss_ready"
    /\ LET provider == LookupProvider(config)
       IN  IF provider.ok
           THEN /\ client' = Some([base_url |-> provider.val.base_url.val])
                /\ pc' = "check_server"
                /\ ret' = ret
           ELSE /\ client' = client
                /\ pc' = "returned"
                /\ ret' = Some(provider)
    /\ UNCHANGED <<config, platform, which_lms, env, fs, requests, trace, response,
                   health, fetched, home_dir, lms_binary, child, logged>>

\* client.check_server().await? at the end of try_from_provider; the server
\* answers the GET with any outcome.
CheckServer ==
    /\ pc = "check_server"
    /\ \E r \in CheckServerResults :
          /\ health' = Some(r)
          /\ pc' = AfterCheckServer(r).next
          /\ ret' = AfterCheckServer(r).ret
    /\ requests' = Append(requests, ModelsUrl(client.val.base_url))
    /\ trace' = Append(trace, "check_server")
    /\ UNCHANGED <<config, platform, which_lms, env, fs, client, response, fetched,
                   home_dir, lms_binary, child, logged>>

\* match lmstudio_client.fetch_models().await { ... } up to find_lms_binary.
FetchModels ==
    /\ pc = "fetch_models"
    /\ \E r \in FetchModelsResults :
          /\ fetched' = Some(r)
          /\ pc' = MatchFetched(r).next
          /\ ret' = MatchFetched(r).ret
          /\ logged' = logged \o MatchFetched(r).log
    /\ requests' = Append(requests, ModelsUrl(client.val.base_url))
    /\ trace' = Append(trace, "fetch_models")
    /\ UNCHANGED <<config, platform, which_lms, env, fs, client, response, health,
                   home_dir, lms_binary, child>>

\* let lms_binary = find_lms_binary()?;
FindLmsBinary ==
    /\ pc = "find_lms_binary"
    /\ LET r == find_lms_binary(platform, which_lms, env, fs)
       IN  /\ lms_binary' = Some(r)
           /\ pc' = AfterFindLmsBinary(r).next
           /\ ret' = AfterFindLmsBinary(r).ret
    /\ trace' = Append(trace, "find_lms_binary")
    /\ UNCHANGED <<config, platform, which_lms, env, fs, client, requests, response,
                   health, fetched, home_dir, child, logged>>

\* Command::new(&lms_binary).args([...]).status(), and the checks on its result.
RunLmsGet ==
    /\ pc = "status"
    /\ \E outcome \in StatusOutcomes(platform) :
          /\ child' = Some([program |-> lms_binary.val.val, args |-> GetArgs,
                            outcome |-> outcome])
          /\ ret' = AfterStatus(config, platform, lms_binary.val.val, outcome).ret
          /\ logged' = logged \o AfterStatus(config, platform, lms_binary.val.val, outcome).log
    /\ pc' = "returned"
    /\ trace' = Append(trace, "status")
    /\ UNCHANGED <<config, platform, which_lms, env, fs, client, requests, response,
                   health, fetched, home_dir, lms_binary>>

\* The caller invokes ensure_oss_ready again; nothing of a run outlives it.
CallAgain ==
    /\ pc = "returned"
    /\ pc' = "ensure_oss_ready"
    /\ client' = None
    /\ requests' = <<>>
    /\ trace' = <<>>
    /\ response' = NoOutcome
    /\ health' = None
    /\ fetched' = None
    /\ home_dir' = None
    /\ lms_binary' = None
    /\ child' = None
    /\ logged' = <<>>
    /\ ret' = None
    /\ UNCHANGED <<config, platform, which_lms, env, fs>>

Next ==
    \/ TryFromProvider
    \/ CheckServer
    \/ FetchModels
    \/ FindLmsBinary
    \/ RunLmsGet
    \/ CallAgain

Spec == Init /\ [][Next]_vars

\* Every step of ensure_oss_ready that is pending is eventually taken: each
\* awaited call and the child process return.
Step ==
    TryFromProvider \/ CheckServer \/ FetchModels \/ FindLmsBinary \/ RunLmsGet

FairSpec == Init /\ [][Next]_vars /\ WF_vars(Step)

----------------------------------------------------------------------------
(* Direct calls of the client, as the tests of client.rs make them *)

\* LMStudioClient::from_host_root(server.uri())
from_host_root(host_root) == [base_url |-> host_root]

ClientInit ==
    /\ config = [model_providers |-> <<>>, model |-> DEFAULT_OSS_MODEL]
    /\ platform = "unix"
    /\ which_lms = FALSE
    /\ env = [v \in {"HOME", "USERPROFILE"} |-> None]
    /\ fs = {}
    /\ pc = "client"
    /\ Fresh

ClientStart ==
    /\ pc = "client"
    /\ client = None
    /\ \E host_root \in BaseUrls : client' = Some(from_host_root(host_root))
    /\ UNCHANGED <<config, platform, which_lms, env, fs, pc, requests, trace, response,
                   health, fetched, home_dir, lms_binary, child, logged, ret>>

\* client.check_server().await against a server that answers `outcome`.
CallCheckServer ==
    /\ pc = "client"
    /\ client /= None
    /\ \E outcome \in SendOutcomes :
          /\ response' = outcome
          /\ health' = Some(check_server(outcome))
          /\ ret' = Some(check_server(outcome))
    /\ requests' = Append(requests, ModelsUrl(client.val.base_url))
    /\ trace' = Append(trace, "check_server")
    /\ pc' = "returned"
    /\ UNCHANGED <<config, platform, which_lms, env, fs, client, fetched, home_dir,
                   lms_binary, child, logged>>

\* client.fetch_models().await against a server that answers `outcome`.
CallFetchModels ==
    /\ pc = "client"
    /\ client /= None
    /\ \E outcome \in SendOutcomes :
          /\ response' = outcome
          /\ fetched' = Some(fetch_models(outcome))
          /\ ret' = Some(fetch_models(outcome))
    /\ requests' = Append(requests, ModelsUrl(client.val.base_url))
    /\ trace' = Append(trace, "fetch_models")
    /\ pc' = "returned"
    /\ UNCHANGED <<config, platform, which_lms, env, fs, client, health, home_dir,
                   lms_binary, child, logged>>

ClientNext == ClientStart \/ CallCheckServer \/ CallFetchModels

ClientSpec == ClientInit /\ [][ClientNext]_vars

----------------------------------------------------------------------------
(* Direct calls of the locator, as the tests of lib.rs make them *)

LocatorInit ==
    /\ config = [model_providers |-> <<>>, model |-> DEFAULT_OSS_MODEL]
    /\ platform \in Platforms
    /\ which_lms \in BOOLEAN
    /\ env \in Envs
    /\ fs \in Filesystems
    /\ pc = "locator"
    /\ Fresh

\* find_lms_binary() and find_lms_binary_with_home_dir(Some(dir))
CallFindLmsBinaryWithHomeDir ==
    /\ pc = "locator"
    /\ \E hd \in HomeDirArgs :
          /\ home_dir' = hd
          /\ lms_binary' = Some(find_lms_binary_with_home_dir(hd, platform, which_lms, env, fs))
          /\ ret' = Some(find_lms_binary_with_home_dir(hd, platform, which_lms, env, fs))
    /\ trace' = Append(trace, "find_lms_binary")
    /\ pc' = "returned"
    /\ UNCHANGED <<config, platform, which_lms, env, fs, client, requests, response,
                   health, fetched, child, logged>>

LocatorNext == CallFindLmsBinaryWithHomeDir

LocatorSpec == LocatorInit /\ [][LocatorNext]_vars

----------------------------------------------------------------------------
(* Vocabulary of the properties, stated apart from the code's operators *)

Elems(seq) == {seq[i] : i \in 1..Len(seq)}

Is2xx(status) == status \in 200..299

ReturnedOk == pc = "returned" /\ ret = Some(Ok(Unit))

ReturnedErr == pc = "returned" /\ ret.some /\ ~ret.val.ok

ProviderMissing == LMSTUDIO_OSS_PROVIDER_ID \notin DOMAIN config.model_providers

NothingLocatedOrSpawned ==
    /\ lms_binary = None
    /\ child = None
    /\ "find_lms_binary" \notin Elems(trace)
    /\ "status" \notin Elems(trace)

ListingOk == fetched.some /\ fetched.val.ok

ListingFailed == fetched.some /\ ~fetched.val.ok

\* The body is a JSON object whose `data` is an array.
HasDataArray(body) ==
    /\ body.json
    /\ body.value.t = "object"
    /\ "data" \in DOMAIN body.value.v
    /\ body.value.v["data"].t = "array"

\* Positions of the entries of a `data` array that carry a string `id`.
StringIdAt(data) ==
    {i \in 1..Len(data) :
        /\ data[i].t = "object"
        /\ "id" \in DOMAIN data[i].v
        /\ data[i].v["id"].t = "string"}

\* ids is exactly the string ids of data, in data's order, duplicates kept.
IsIdsOf(ids, data) ==
    /\ Len(ids) = Cardinality(StringIdAt(data))
    /\ \A i \in StringIdAt(data) :
          ids[Cardinality({j \in StringIdAt(data) : j <= i})] = data[i].v["id"].v

----------------------------------------------------------------------------
(* C1: when the client was constructed and the listing succeeded and holds  *)
(* DEFAULT_OSS_MODEL, the run has returned Ok without calling the binary    *)
(* locator and without spawning a process; as an invariant of every run,    *)
(* a repeated run in that situation spawns nothing either.                  *)
C1_ListedModelIsNoOp ==
    (ListingOk /\ DEFAULT_OSS_MODEL \in Elems(fetched.val.val))
        => /\ ReturnedOk
           /\ NothingLocatedOrSpawned
           /\ logged = <<>>

C1_Witness ==
    /\ client /= None
    /\ health = Some(Ok(Unit))
    /\ ListingOk
    /\ fetched.val.val = <<OTHER_MODEL, DEFAULT_OSS_MODEL>>
    /\ ReturnedOk
    /\ child = None

(* C2: once the client is constructed, a failed listing (transport failure, *)
(* non-2xx status, unparseable body, body without a data array) ends the    *)
(* run with Ok and a warning, with no locator call and no process; and a   *)
(* run that returns Ok has seen no other step fail.                         *)
C2_ListingFailureIsOnlyDowngrade ==
    /\ ListingFailed
          => /\ health = Some(Ok(Unit))
             /\ ReturnedOk
             /\ NothingLocatedOrSpawned
             /\ logged = <<WarnLine(fetched.val)>>
    /\ ReturnedOk
          => /\ ~ProviderMissing
             /\ health = Some(Ok(Unit))
             /\ lms_binary.some => lms_binary.val.ok
             /\ child.some =>
                   /\ child.val.outcome.spawned
                   /\ child.val.outcome.status = Exited(0)

C2_Witness ==
    /\ ListingFailed
    /\ fetched.val.kind = "InvalidData"
    /\ ReturnedOk
    /\ Len(logged) = 1

(* C3: with no provider entry under the LM Studio key, the run returns the  *)
(* NotFound error of try_from_provider, having issued no HTTP request, run  *)
(* no health check and no listing, located no binary, spawned no process.   *)
C3_MissingProviderIsFatalAndOffline ==
    (ProviderMissing /\ pc /= "ensure_oss_ready")
        => /\ ReturnedErr
           /\ ret.val.kind = "NotFound"
           /\ Contains(ret.val.msg, LMSTUDIO_OSS_PROVIDER_ID)
           /\ client = None
           /\ requests = <<>>
           /\ trace = <<>>
           /\ health = None
           /\ fetched = None
           /\ NothingLocatedOrSpawned

C3_Witness ==
    /\ ProviderMissing
    /\ DOMAIN config.model_providers /= {}
    /\ ReturnedErr
    /\ requests = <<>>

(* C4: the identifier tested against the listing, and the one passed to     *)
(* `get --yes`, is config.model: after a successful listing the run takes   *)
(* the no-op path exactly when config.model is listed, and a spawned        *)
(* process has the arguments get --yes <config.model>.                      *)
C4_ConfiguredModelIsUsed ==
    /\ ListingOk
          => ((pc = "returned" /\ lms_binary = None)
                 <=> config.model \in Elems(fetched.val.val))
    /\ child.some => child.val.args = <<"get", "--yes", config.model>>

(* C5: for a 2xx response whose body has a top-level data array,            *)
(* fetch_models returns Ok with exactly the string ids of the entries, in   *)
(* order, duplicates kept, entries without a string id skipped; an empty    *)
(* array gives the empty list.                                              *)
C5_FetchModelsReturnsIdsInOrder ==
    (fetched.some /\ response.sent /\ Is2xx(response.status)
        /\ HasDataArray(response.body))
        => /\ fetched.val.ok
           /\ IsIdsOf(fetched.val.val, response.body.value.v["data"].v)
           /\ response.body.value.v["data"].v = <<>> => fetched.val.val = <<>>

C5_Witness ==
    /\ fetched.some
    /\ response.sent
    /\ response.status = 200
    /\ HasDataArray(response.body)
    /\ Len(response.body.value.v["data"].v) = 3
    /\ fetched = Some(Ok(<<DEFAULT_OSS_MODEL, DEFAULT_OSS_MODEL>>))

C7_CheckServerOkIff2xx ==
    health.some
        => /\ requests = << <<"http://localhost:1234/v1", "/models">> >>
           /\ health.val.ok <=> (response.sent /\ Is2xx(response.status))
           /\ (response.sent /\ ~Is2xx(response.status))
                 => /\ health.val.kind = "Other"
                    /\ Contains(health.val.msg, ToString(response.status))

C7_Witness ==
    /\ health = Some(Ok(Unit))
    /\ response.sent
    /\ response.status = 204
    /\ ~response.body.json
    /\ client.val.base_url = <<"http://localhost:1234/v1", "/">>

(* C8: the locator returns the bare name lms when lms is on the search      *)
(* path, even if the fallback file exists; otherwise the fallback path      *)
(* {home}/.lmstudio/bin/lms (lms.exe in a windows build) when that file     *)
(* exists, home being the override when given and else the platform's home  *)
(* variable (empty when unset); otherwise a NotFound error whose message    *)
(* holds the installation URL.                                              *)
C8_LocatorOrder ==
    lms_binary.some
        => LET home == IF home_dir.some THEN home_dir.val
                       ELSE IF platform = "unix"
                       THEN (IF env["HOME"].some THEN env["HOME"].val ELSE "")
                       ELSE (IF env["USERPROFILE"].some THEN env["USERPROFILE"].val ELSE "")
               file == IF platform = "unix" THEN home \o "/.lmstudio/bin/lms"
                       ELSE home \o "/.lmstudio/bin/lms.exe"
           IN  /\ which_lms => lms_binary.val = Ok("lms")
               /\ (~which_lms /\ file \in fs) => lms_binary.val = Ok(file)
               /\ (~which_lms /\ file \notin fs)
                     => /\ ~lms_binary.val.ok
                        /\ lms_binary.val.kind = "NotFound"
                        /\ Contains(lms_binary.val.msg, "https://lmstudio.ai/")

C8_Witness ==
    /\ platform = "unix"
    /\ ~which_lms
    /\ home_dir = Some("/test/home")
    /\ env["HOME"] = Some("/home/u")
    /\ fs = {"/test/home/.lmstudio/bin/lms"}
    /\ lms_binary = Some(Ok("/test/home/.lmstudio/bin/lms"))

(* C9: after a successful listing without DEFAULT_OSS_MODEL, the run        *)
(* returns Ok exactly when the binary was located, the process was spawned  *)
(* and it exited with status 0; a locator failure is returned and nothing   *)
(* is spawned; a spawn failure is returned with the OS error; a non-zero    *)
(* exit is returned with the exit status.                                   *)
C9_DownloadOutcome ==
    (ListingOk /\ DEFAULT_OSS_MODEL \notin Elems(fetched.val.val) /\ pc = "returned")
        => /\ ret.some
           /\ ret.val.ok
                 <=> /\ lms_binary.some /\ lms_binary.val.ok
                     /\ child.some /\ child.val.outcome.spawned
                     /\ child.val.outcome.status = Exited(0)
           /\ (lms_binary.some /\ ~lms_binary.val.ok)
                 => /\ ret = lms_binary
                    /\ child = None
                    /\ "status" \notin Elems(trace)
           /\ (child.some /\ ~child.val.outcome.spawned)
                 => /\ ~ret.val.ok
                    /\ Contains(ret.val.msg, child.val.outcome.error)
           /\ (child.some /\ child.val.outcome.spawned
                  /\ child.val.outcome.status /= Exited(0))
                 => /\ ~ret.val.ok
                    /\ IF child.val.outcome.status.exited
                       THEN Contains(ret.val.msg, ToString(child.val.outcome.status.code))
                       ELSE Contains(ret.val.msg, ToString(child.val.outcome.status.signal))

C9_Witness ==
    /\ ListingOk
    /\ fetched.val.val = <<OTHER_MODEL>>
    /\ lms_binary.some /\ lms_binary.val.ok
    /\ child.some /\ child.val.outcome = Ran(Exited(0))
    /\ ReturnedOk

(* C10: the external steps of a run happen in the fixed order health check, *)
(* listing, locator, process, each at most once; the listing request only   *)
(* after a successful health check, the locator only after a successful     *)
(* listing without the model, the process only after a successful locator;  *)
(* a failed health check returns its error before any listing or spawn;     *)
(* and every run that is entered returns Ok or an error.                    *)
C10_Order ==
    /\ \E n \in 0..4 :
          trace = SubSeq(<<"check_server", "fetch_models", "find_lms_binary", "status">>, 1, n)
    /\ Len(requests) = Cardinality(Elems(trace) \cap {"check_server", "fetch_models"})
    /\ "fetch_models" \in Elems(trace) => health = Some(Ok(Unit))
    /\ "find_lms_binary" \in Elems(trace)
          => ListingOk /\ DEFAULT_OSS_MODEL \notin Elems(fetched.val.val)
    /\ "status" \in Elems(trace) => lms_binary.some /\ lms_binary.val.ok
    /\ (health.some /\ ~health.val.ok)
          => /\ ReturnedErr
             /\ ret = health
             /\ trace = <<"check_server">>
             /\ Len(requests) = 1
             /\ child = None

C10_OrderedOnceAndTerminates ==
    /\ []C10_Order
    /\ (pc = "ensure_oss_ready") ~> (pc = "returned" /\ ret.some)

C10_Witness ==
    /\ trace = <<"check_server", "fetch_models", "find_lms_binary", "status">>
    /\ Len(requests) = 2
    /\ ReturnedErr

====
